---- MODULE Spec2Model ----
(***************************************************************************)
(* TDB2TT.c: the MEX gateway mexFunction that converts barycentric         *)
(* dynamical time to terrestrial time, and its helper getDeltaTFromEOP.    *)
(*                                                                         *)
(* One Matlab session is modelled: the caller's workspace holds the        *)
(* argument arrays prhs, and the caller invokes TDB2TT on them up to       *)
(* MaxCalls times.  Every library call of the source is one step.  The     *)
(* SOFA routines and getEOP are external: a status they return is any      *)
(* value of the routine's status set, a date or correction they return is  *)
(* the uninterpreted term of the routine applied to its arguments, and     *)
(* the UT1 date of iauTtut1, on which the source does arithmetic, is a     *)
(* fixed function of the arguments (Ttut1Out).  getEOP may answer          *)
(* differently at every query.                                             *)
(*                                                                         *)
(* Doubles on which the source does arithmetic (lines 145-146) are         *)
(* modelled by a small binary floating-point format: an integer n stands   *)
(* for n / 2^FracBits and carries at most Prec significant bits; every     *)
(* operation rounds to nearest, ties to even.                              *)
(***************************************************************************)
EXTENDS Integers, Sequences, FiniteSets, TLC

\* ------------------------------------------------------------------ bounds
MaxCalls == 2
Prec == 3
FracBits == 4
MaxDay == 2

\* ------------------------------------------------- floating-point format
RECURSIVE Pow2(_)
Pow2(k) == IF k <= 0 THEN 1 ELSE 2 * Pow2(k - 1)

\* One day on the grid.
Scale == Pow2(FracBits)

Abs(n) == IF n < 0 THEN 0 - n ELSE n

\* The spacing of the representable numbers around magnitude a.
RECURSIVE Ulp(_)
Ulp(a) == IF a < Pow2(Prec) THEN 1 ELSE 2 * Ulp(a \div 2)

Representable(n) == Abs(n) % Ulp(Abs(n)) = 0

\* Round a non-negative real a/1 to a multiple of q, ties to the even
\* multiple.
RoundMag(a, q) ==
    LET lo == a \div q
        r  == a % q
    IN  IF 2 * r < q THEN lo * q
        ELSE IF 2 * r > q THEN (lo + 1) * q
        ELSE IF lo % 2 = 0 THEN lo * q ELSE (lo + 1) * q

\* The double nearest to the real number x.
Nearest(x) ==
    IF x < 0 THEN 0 - RoundMag(0 - x, Ulp(0 - x)) ELSE RoundMag(x, Ulp(x))

\* Rounding of the result of an operation; n is evaluated once.
Round(n) == CHOOSE r \in {Nearest(x) : x \in {n}} : TRUE

\* floor() of a double is exact.
Floor(n) == (n \div Scale) * Scale

FSub(a, b) == Round(a - b)
FAdd(a, b) == Round(a + b)

\* Lines 145-146 with line 146 left out.
UT1FracNoWrap(Jul1, Jul2) ==
    FAdd(FSub(Jul1, Floor(Jul1)), FSub(Jul2, Floor(Jul2)))

\* Lines 145-146: the fraction of a Julian day in UT1.
UT1FracOf(Jul1, Jul2) ==
    LET s == FAdd(FSub(Jul1, Floor(Jul1)), FSub(Jul2, Floor(Jul2)))
    IN  FSub(s, Floor(s))

\* The doubles between -MaxDay and MaxDay days.
Doubles == {n \in (0 - MaxDay * Scale)..(MaxDay * Scale) : Representable(n)}

\* ------------------------------------------------------ values and terms
\* A double the source only passes on is a tagged value: a number given by
\* the caller or by getEOP, or the result of a library routine as a term.
Num(n) == <<"num", n>>
Undef == <<"undef">>

\* Results of the SOFA routines as terms; c is the output component.
TttaiOut(c, tt1, tt2) == <<"iauTttai", c, tt1, tt2>>
TaiutcOut(c, tai1, tai2) == <<"iauTaiutc", c, tai1, tai2>>
DtdbOut(date1, date2, ut, elong, uu, vv) ==
    <<"iauDtdb", date1, date2, ut, elong, uu, vv>>
TdbttOut(c, tdb1, tdb2, dtr) == <<"iauTdbtt", c, tdb1, tdb2, dtr>>

\* --------------------------------------------------- clock coordinates
\* A clock coordinate <<m, k>> is the real number m / 1000^k, in lowest
\* terms of the power of 1000.
RECURSIVE Pow1000(_)
Pow1000(k) == IF k <= 0 THEN 1 ELSE 1000 * Pow1000(k - 1)

RECURSIVE Norm(_)
Norm(c) ==
    IF c[1] = 0 THEN <<0, 0>>
    ELSE IF c[2] > 0 /\ c[1] % 1000 = 0 THEN Norm(<<c[1] \div 1000, c[2] - 1>>)
    ELSE c

Div1000(c) == Norm(<<c[1], c[2] + 1>>)
Mul(a, b) == Norm(<<a[1] * b[1], a[2] + b[2]>>)
Max(a, b) == IF a > b THEN a ELSE b
Aligned(a, K) == a[1] * Pow1000(K - a[2])
Add(a, b) ==
    LET K == Max(a[2], b[2]) IN Norm(<<Aligned(a, K) + Aligned(b, K), K>>)
ISqrt(s) == CHOOSE r \in 0..s : r * r <= s /\ s < (r + 1) * (r + 1)
Sqrt(c) ==
    LET e == IF c[2] % 2 = 0 THEN c ELSE <<c[1] * 1000, c[2] + 1>>
    IN  Norm(<<ISqrt(e[1]), e[2] \div 2>>)
RECURSIVE GCD(_, _)
GCD(a, b) == IF b = 0 THEN a ELSE GCD(b, a % b)
\* atan2 depends on the direction of (x, y) only: the angle is the
\* direction in lowest terms, and atan2(0, 0) is the zero angle.
Atan2(y, x) ==
    LET K  == Max(y[2], x[2])
        ym == Aligned(y, K)
        xm == Aligned(x, K)
        g  == GCD(Abs(ym), Abs(xm))
    IN  IF g = 0 THEN <<"angle", 0, 1>>
        ELSE IF ym = 0 /\ xm > 0 THEN <<"angle", 0, 1>>
        ELSE <<"angle", ym \div g, xm \div g>>
ZeroAngle == <<"angle", 0, 1>>
ZeroLen == <<0, 0>>

\* ------------------------------------------------------------ mxArrays
Scalar(val) == [m |-> 1, n |-> 1, real |-> TRUE, data |-> <<val>>]
EmptyMat == [m |-> 0, n |-> 0, real |-> TRUE, data |-> <<>>]
Col3(x, y, z) ==
    [m |-> 3, n |-> 1, real |-> TRUE, data |-> <<<<x, 0>>, <<y, 0>>, <<z, 0>>>>]
Row3(x, y, z) ==
    [m |-> 1, n |-> 3, real |-> TRUE, data |-> <<<<x, 0>>, <<y, 0>>, <<z, 0>>>>]
Complex3(x, y, z) ==
    [m |-> 3, n |-> 1, real |-> FALSE, data |-> <<<<x, 0>>, <<y, 0>>, <<z, 0>>>>]

mxIsEmpty(a) == a.m = 0 \/ a.n = 0
getDoubleFromMatlab(a) == a.data[1]

\* ---------------------------------------------------- the caller's inputs
TDBPairs == {<<Num(40), Num(1)>>}
DeltaArgs == {EmptyMat, Scalar(Num(69))}
ClockArgs == {EmptyMat, Col3(3, 4, 5), Col3(0, 0, 0), Row3(3, 4, 5),
              Complex3(3, 4, 5)}
ExtraArgs == {EmptyMat}
NlhsVals == 1..3

ArgLists ==
    {<<Scalar(Num(40))>>}
    \cup {<<Scalar(p[1]), Scalar(p[2])>> : p \in TDBPairs}
    \cup {<<Scalar(p[1]), Scalar(p[2]), d>> : p \in TDBPairs, d \in DeltaArgs}
    \cup {<<Scalar(p[1]), Scalar(p[2]), d, c>> :
             p \in TDBPairs, d \in DeltaArgs \ {EmptyMat}, c \in ClockArgs}
    \cup {<<Scalar(p[1]), Scalar(p[2]), EmptyMat, Col3(3, 4, 5)>> :
             p \in TDBPairs}
    \cup {<<Scalar(p[1]), Scalar(p[2]), d, c, x>> :
             p \in TDBPairs, d \in {EmptyMat}, c \in {EmptyMat}, x \in ExtraArgs}

\* -------------------------------------------- what the library may answer
StatusVals == {-1, 0, 1}
EOPVals == {Num(64), Num(65)}
\* The UT1 dates of the library: iauTtut1 is a function of its arguments,
\* here of the offset and of whether TT is still the caller's date.
UT1Table == <<<<40, -1>>, <<24, 7>>, <<-20, 5>>>>
Ttut1Out(tt1, tt2, dt) ==
    UT1Table[((dt[2] + (IF tt1[1] = "num" THEN 0 ELSE 1)) % Len(UT1Table)) + 1]

\* ---------------------------------------------------------------- state
VARIABLES
    prhs,          \* the caller's argument arrays (caller's workspace)
    ncalls,        \* calls of TDB2TT completed in this session
    hist,          \* what the caller saw of each completed call
    pc,            \* position of the running call
    nlhs, plhs,    \* requested outputs, produced outputs
    entry,         \* the argument arrays as they were when the call began
    log,           \* the reads, library calls, messages and writes so far
    TDB1, TDB2, TT1, TT2, deltaTTUT1, u, v, elon, retVal, curIter,
    iterateDeltaT, Jul1UT1, Jul2UT1, UT1Frac, deltaT, JulUTC

locals == <<TDB1, TDB2, TT1, TT2, deltaTTUT1, u, v, elon, retVal, curIter,
            iterateDeltaT, Jul1UT1, Jul2UT1, UT1Frac, deltaT, JulUTC>>
session == <<prhs, ncalls, hist>>
vars == <<prhs, ncalls, hist, pc, nlhs, plhs, entry, log, locals>>

nrhs == Len(prhs)

Event(fn, args, ret, out) ==
    [fn |-> fn, iter |-> curIter, args |-> args, ret |-> ret, out |-> out]

\* mexErrMsgTxt ends the MEX function: control goes back to Matlab and no
\* statement after it runs.
mexErrMsgTxt(msg, sofar) ==
    /\ pc' = "error"
    /\ log' = Append(sofar, Event("mexErrMsgTxt", <<msg>>, 0, <<>>))

mexWarnMsgTxt(msg) == Event("mexWarnMsgTxt", <<msg>>, 0, <<>>)

\* The stack frame of a call that is not running.
NoFrame ==
    /\ TDB1 = Undef /\ TDB2 = Undef /\ TT1 = Undef /\ TT2 = Undef
    /\ deltaTTUT1 = Num(0) /\ u = ZeroLen /\ v = ZeroLen /\ elon = ZeroAngle
    /\ retVal = 0 /\ curIter = -1 /\ iterateDeltaT = FALSE
    /\ Jul1UT1 = 0 /\ Jul2UT1 = 0 /\ UT1Frac = 0 /\ deltaT = Undef
    /\ JulUTC = <<Undef, Undef>>

Idle ==
    /\ pc = "idle" /\ nlhs = 0 /\ plhs = <<>> /\ entry = <<>> /\ log = <<>>
    /\ NoFrame

Init ==
    /\ prhs \in ArgLists
    /\ ncalls = 0
    /\ hist = <<>>
    /\ Idle

\* ------------------------------------------- conditions and arguments
\* Line 75.
WrongNumberOfInputsLax == nrhs < 2
WrongNumberOfInputs == nrhs < 2 \/ nrhs > 4

\* Line 80.
WrongNumberOfOutputs(nl) == nl > 2

\* Line 94.
DeltaTGivenOff == nrhs > 3 /\ ~mxIsEmpty(prhs[3])
DeltaTGiven == nrhs > 2 /\ ~mxIsEmpty(prhs[3])

\* Line 101.
ClockGiven == nrhs > 3 /\ ~mxIsEmpty(prhs[4])

\* Line 124.
LoopContinues3 == curIter < 3
LoopContinues == curIter < 2

\* Line 128: the date the offset is looked up for.
LookupArgsTDB == <<TDB1, TDB2>>
LookupArgs == <<TT1, TT2>>

\* Line 178.
TttaiFailedNeg(st) == st < 0
TttaiFailed(st) == st # 0

\* Lines 183 and 186.
TaiutcDubious(st) == st = 1
TaiutcUnacceptable(st) == st = -1

\* Line 132.
Ttut1Args == <<TT1, TT2, deltaTTUT1>>

\* Lines 134 and 137.
Ttut1UnacceptableAny(st) == st # 0
Ttut1Unacceptable(st) == st = -1
Ttut1Dubious(st) == st = 1

\* Line 149.
DtdbArgsTT == <<TT1, TT2, UT1Frac, elon, u, v>>
DtdbArgs == <<TDB1, TDB2, UT1Frac, elon, u, v>>

\* Line 151.
TdbttArgs == <<TDB1, TDB2, deltaT>>

\* Line 152.
TdbttFailedNeg(st) == st < 0
TdbttFailed(st) == st # 0

\* -------------------------------------------------------------- actions
\* The caller invokes [..] = TDB2TT(prhs{:}) with nl outputs; lines 75-83.
Call(nl) ==
    /\ pc = "idle"
    /\ ncalls < MaxCalls
    /\ nlhs' = nl
    /\ entry' = prhs
    /\ plhs' = <<>>
    /\ IF WrongNumberOfInputs
       THEN mexErrMsgTxt("Wrong number of inputs.", <<>>)
       ELSE IF WrongNumberOfOutputs(nl)
       THEN mexErrMsgTxt("Wrong number of outputs.", <<>>)
       ELSE pc' = "readInputs" /\ log' = <<>>
    /\ UNCHANGED <<session, locals>>

\* Lines 85-99.
ReadInputs ==
    /\ pc = "readInputs"
    /\ TDB1' = getDoubleFromMatlab(prhs[1])
    /\ TDB2' = getDoubleFromMatlab(prhs[2])
    /\ TT1' = TDB1'
    /\ TT2' = TDB2'
    /\ LET reads == log \o
              <<Event("getDoubleFromMatlab", <<0>>, 0, <<TDB1'>>),
                Event("getDoubleFromMatlab", <<1>>, 0, <<TDB2'>>)>>
       IN IF DeltaTGiven
          THEN /\ iterateDeltaT' = FALSE
               /\ deltaTTUT1' = getDoubleFromMatlab(prhs[3])
               /\ log' = Append(reads,
                     Event("getDoubleFromMatlab", <<2>>, 0, <<deltaTTUT1'>>))
          ELSE /\ iterateDeltaT' = TRUE
               /\ deltaTTUT1' = deltaTTUT1
               /\ log' = reads
    /\ pc' = "clockLoc"
    /\ UNCHANGED <<session, nlhs, plhs, entry, u, v, elon, retVal, curIter,
                   Jul1UT1, Jul2UT1, UT1Frac, deltaT, JulUTC>>

\* Lines 101-121 and the loop initialisation of line 124.  xyzClock points
\* into the caller's array prhs[3]: line 112 writes the array itself.
ClockLoc ==
    /\ pc = "clockLoc"
    /\ IF ClockGiven
       THEN IF prhs[4].m # 3 \/ prhs[4].n # 1
            THEN /\ mexErrMsgTxt(
                      "The dimensionality of the clock location is incorrect.",
                      log)
                 /\ UNCHANGED <<prhs, u, v, elon, curIter>>
            ELSE IF ~prhs[4].real
            THEN /\ mexErrMsgTxt("checkRealDoubleArray", log)
                 /\ UNCHANGED <<prhs, u, v, elon, curIter>>
            ELSE \E xyzClock \in {[i \in 1..3 |-> Div1000(prhs[4].data[i])]} :
                    /\ prhs' = [prhs EXCEPT ![4].data = xyzClock]
                    /\ u' = Sqrt(Add(Mul(xyzClock[1], xyzClock[1]),
                                     Mul(xyzClock[2], xyzClock[2])))
                    /\ v' = xyzClock[3]
                    /\ elon' = Atan2(xyzClock[2], xyzClock[1])
                    /\ curIter' = 0
                    /\ pc' = "loop"
                    /\ log' = Append(log,
                          Event("mxGetData", <<3>>, 0, prhs[4].data))
       ELSE /\ u' = ZeroLen
            /\ v' = ZeroLen
            /\ elon' = ZeroAngle
            /\ curIter' = 0
            /\ pc' = "loop"
            /\ UNCHANGED <<prhs, log>>
    /\ UNCHANGED <<ncalls, hist, nlhs, plhs, entry, TDB1, TDB2,
                   TT1, TT2, deltaTTUT1, retVal, iterateDeltaT, Jul1UT1,
                   Jul2UT1, UT1Frac, deltaT, JulUTC>>

\* Line 124 (the loop test) and line 127.
LoopTest ==
    /\ pc = "loop"
    /\ pc' = IF LoopContinues
             THEN IF iterateDeltaT THEN "iauTttai" ELSE "iauTtut1"
             ELSE "output"
    /\ UNCHANGED <<session, nlhs, plhs, entry, log, locals>>

\* getDeltaTFromEOP, lines 177-180.
Tttai(st) ==
    /\ pc = "iauTttai"
    /\ retVal' = st
    /\ LET tt == LookupArgs
           call == Event("iauTttai", tt, st,
                         <<TttaiOut(1, tt[1], tt[2]), TttaiOut(2, tt[1], tt[2])>>)
       IN IF TttaiFailed(st)
          THEN /\ mexErrMsgTxt("An error occurred computing TAI.",
                               Append(log, call))
               /\ UNCHANGED JulUTC
          ELSE /\ JulUTC' = call.out
               /\ log' = Append(log, call)
               /\ pc' = "iauTaiutc"
    /\ UNCHANGED <<session, nlhs, plhs, entry, TDB1, TDB2, TT1, TT2,
                   deltaTTUT1, u, v, elon, curIter, iterateDeltaT, Jul1UT1,
                   Jul2UT1, UT1Frac, deltaT>>

\* getDeltaTFromEOP, lines 181-191.
Taiutc(st) ==
    /\ pc = "iauTaiutc"
    /\ retVal' = st
    /\ LET call == Event("iauTaiutc", JulUTC, st,
                         <<TaiutcOut(1, JulUTC[1], JulUTC[2]),
                           TaiutcOut(2, JulUTC[1], JulUTC[2])>>)
       IN CASE TaiutcDubious(st) ->
                 /\ JulUTC' = call.out
                 /\ log' = log \o <<call, mexWarnMsgTxt("Dubious Date entered.")>>
                 /\ pc' = "getEOP"
            [] TaiutcUnacceptable(st) ->
                 /\ mexErrMsgTxt("Unacceptable date entered", Append(log, call))
                 /\ UNCHANGED JulUTC
            [] OTHER ->
                 /\ JulUTC' = call.out
                 /\ log' = Append(log, call)
                 /\ pc' = "getEOP"
    /\ UNCHANGED <<session, nlhs, plhs, entry, TDB1, TDB2, TT1, TT2,
                   deltaTTUT1, u, v, elon, curIter, iterateDeltaT, Jul1UT1,
                   Jul2UT1, UT1Frac, deltaT>>

\* getDeltaTFromEOP, lines 193-208, and the assignment of line 128.
GetEOP(val) ==
    /\ pc = "getEOP"
    /\ deltaTTUT1' = val
    /\ log' = Append(log, Event("getEOP", JulUTC, 0, <<val>>))
    /\ pc' = "iauTtut1"
    /\ UNCHANGED <<session, nlhs, plhs, entry, TDB1, TDB2, TT1, TT2, u, v,
                   elon, retVal, curIter, iterateDeltaT, Jul1UT1, Jul2UT1,
                   UT1Frac, deltaT, JulUTC>>

\* Lines 132-142.
Ttut1(st) ==
    /\ pc = "iauTtut1"
    /\ LET a == Ttut1Args
           ut == Ttut1Out(a[1], a[2], a[3])
           call == Event("iauTtut1", a, st, ut)
       IN /\ retVal' = st
          /\ CASE Ttut1Unacceptable(st) ->
                    /\ mexErrMsgTxt("Unacceptable date provided.",
                                    Append(log, call))
                    /\ UNCHANGED <<Jul1UT1, Jul2UT1>>
               [] Ttut1Dubious(st) ->
                    /\ Jul1UT1' = ut[1]
                    /\ Jul2UT1' = ut[2]
                    /\ log' = log \o
                          <<call, mexWarnMsgTxt("Dubious year provided")>>
                    /\ pc' = "UT1Frac"
               [] OTHER ->
                    /\ Jul1UT1' = ut[1]
                    /\ Jul2UT1' = ut[2]
                    /\ log' = Append(log, call)
                    /\ pc' = "UT1Frac"
    /\ UNCHANGED <<prhs, ncalls, hist, nlhs, plhs, entry, TDB1, TDB2, TT1,
                   TT2, deltaTTUT1, u, v, elon, curIter, iterateDeltaT,
                   UT1Frac, deltaT, JulUTC>>

\* Lines 145-146.
FracStep ==
    /\ pc = "UT1Frac"
    /\ UT1Frac' = UT1FracOf(Jul1UT1, Jul2UT1)
    /\ pc' = "iauDtdb"
    /\ UNCHANGED <<session, nlhs, plhs, entry, log, TDB1, TDB2, TT1, TT2,
                   deltaTTUT1, u, v, elon, retVal, curIter, iterateDeltaT,
                   Jul1UT1, Jul2UT1, deltaT, JulUTC>>

\* Line 149.
Dtdb ==
    /\ pc = "iauDtdb"
    /\ LET a == DtdbArgs
       IN /\ deltaT' = DtdbOut(a[1], a[2], a[3], a[4], a[5], a[6])
          /\ log' = Append(log, Event("iauDtdb", a, 0, <<deltaT'>>))
    /\ pc' = "iauTdbtt"
    /\ UNCHANGED <<session, nlhs, plhs, entry, TDB1, TDB2, TT1, TT2,
                   deltaTTUT1, u, v, elon, retVal, curIter, iterateDeltaT,
                   Jul1UT1, Jul2UT1, UT1Frac, JulUTC>>

\* Lines 151-155 and the increment of line 124.
Tdbtt(st) ==
    /\ pc = "iauTdbtt"
    /\ retVal' = st
    /\ LET a == TdbttArgs
           call == Event("iauTdbtt", a, st,
                         <<TdbttOut(1, a[1], a[2], a[3]),
                           TdbttOut(2, a[1], a[2], a[3])>>)
       IN /\ TT1' = call.out[1]
          /\ TT2' = call.out[2]
          /\ IF TdbttFailed(st)
             THEN /\ mexErrMsgTxt(
                       "An error occured during an intermediate conversion to TDB.",
                       Append(log, call))
                  /\ UNCHANGED curIter
             ELSE /\ log' = Append(log, call)
                  /\ curIter' = curIter + 1
                  /\ pc' = "loop"
    /\ UNCHANGED <<session, nlhs, plhs, entry, TDB1, TDB2, deltaTTUT1, u, v,
                   elon, iterateDeltaT, Jul1UT1, Jul2UT1, UT1Frac, deltaT,
                   JulUTC>>

\* Lines 158-161.
Output ==
    /\ pc = "output"
    /\ plhs' = IF nlhs > 1 THEN <<TT1, TT2>> ELSE <<TT1>>
    /\ log' = log \o
          (IF nlhs > 1
           THEN <<Event("doubleMat2Matlab", <<0>>, 0, <<TT1>>),
                  Event("doubleMat2Matlab", <<1>>, 0, <<TT2>>)>>
           ELSE <<Event("doubleMat2Matlab", <<0>>, 0, <<TT1>>)>>)
    /\ pc' = "done"
    /\ UNCHANGED <<session, nlhs, entry, locals>>

\* Control is back in Matlab: the frame is gone, the caller keeps the
\* outputs and its (possibly written) argument arrays.
Return ==
    /\ pc \in {"done", "error"}
    /\ hist' = Append(hist, [entry |-> entry, after |-> prhs,
                             outcome |-> pc, plhs |-> plhs])
    /\ ncalls' = ncalls + 1
    /\ pc' = "idle" /\ nlhs' = 0 /\ plhs' = <<>> /\ entry' = <<>> /\ log' = <<>>
    /\ TDB1' = Undef /\ TDB2' = Undef /\ TT1' = Undef /\ TT2' = Undef
    /\ deltaTTUT1' = Num(0) /\ u' = ZeroLen /\ v' = ZeroLen
    /\ elon' = ZeroAngle /\ retVal' = 0 /\ curIter' = -1
    /\ iterateDeltaT' = FALSE /\ Jul1UT1' = 0 /\ Jul2UT1' = 0
    /\ UT1Frac' = 0 /\ deltaT' = Undef /\ JulUTC' = <<Undef, Undef>>
    /\ UNCHANGED prhs

Step ==
    \/ ReadInputs
    \/ ClockLoc
    \/ LoopTest
    \/ \E st \in StatusVals : Tttai(st)
    \/ \E st \in StatusVals : Taiutc(st)
    \/ \E val \in EOPVals : GetEOP(val)
    \/ \E st \in StatusVals : Ttut1(st)
    \/ FracStep
    \/ Dtdb
    \/ \E st \in StatusVals : Tdbtt(st)
    \/ Output
    \/ Return

Next ==
    \/ \E nl \in NlhsVals : Call(nl)
    \/ Step

Spec == Init /\ [][Next]_vars

\* The call runs to its end: nothing suspends a MEX function.
FairSpec == Spec /\ WF_vars(Step)

\* Lines 145-146 alone, for every UT1 date iauTtut1 may have written: the
\* first iteration of a call on two arguments, just after line 142.
InitFrac ==
    /\ prhs = <<Scalar(Num(40)), Scalar(Num(1))>>
    /\ ncalls = 0 /\ hist = <<>>
    /\ pc = "UT1Frac" /\ nlhs = 2 /\ plhs = <<>> /\ entry = prhs
    /\ Jul1UT1 \in Doubles /\ Jul2UT1 \in Doubles
    /\ TDB1 = Num(40) /\ TDB2 = Num(1) /\ TT1 = TDB1 /\ TT2 = TDB2
    /\ deltaTTUT1 = Num(64) /\ u = ZeroLen /\ v = ZeroLen /\ elon = ZeroAngle
    /\ retVal = 0 /\ curIter = 0 /\ iterateDeltaT = TRUE
    /\ UT1Frac = 0 /\ deltaT = Undef /\ JulUTC = <<Undef, Undef>>
    /\ log = <<>>

NextFrac == FracStep

SpecFrac == InitFrac /\ [][NextFrac]_vars

\* =============================================================== claims
Running == pc # "idle"
Ended == pc \in {"done", "error"}
Min(a, b) == IF a < b THEN a ELSE b

Positions(fn) == {i \in 1..Len(log) : log[i].fn = fn}
PositionsIn(fn, it) == {i \in Positions(fn) : log[i].iter = it}
FollowedBy(i, fn) == \E j \in PositionsIn(fn, log[i].iter) : j > i
LookupRoutines == {"iauTttai", "iauTaiutc", "getEOP"}
\* The call ended at event i of the log with the error message after it.
AbortedAt(i) ==
    /\ pc = "error"
    /\ plhs = <<>>
    /\ Len(log) = i + 1
    /\ log[i + 1].fn = "mexErrMsgTxt"
ValidCounts == Len(entry) \in 2..4 /\ nlhs <= 2
SuppliedDeltaT == Len(entry) > 2 /\ ~mxIsEmpty(entry[3])
\* Two output lists agree on the components both hold.
SameTT(a, b) == \A c \in 1..Min(Len(a), Len(b)) : a[c] = b[c]
\* The TT estimate at the start of iteration it.
CurrentTT(it) ==
    IF it = 0 THEN <<entry[1].data[1], entry[2].data[1]>>
    ELSE LET k == CHOOSE k \in PositionsIn("iauTdbtt", it - 1) : TRUE
         IN  log[k].out

\* C1: a call with fewer than 2 or more than 4 inputs, or more than 2
\* requested outputs, ends in a usage error before any computation: the
\* only event is the error message, no input was read, no library routine
\* or lookup was called, no local was computed and no output exists.
C1_UsageErrorFirst ==
    (Running /\ (nrhs < 2 \/ nrhs > 4 \/ nlhs > 2)) =>
        /\ pc = "error"
        /\ plhs = <<>>
        /\ Len(log) = 1
        /\ log[1].fn = "mexErrMsgTxt"
        /\ log[1].args[1] = (IF nrhs < 2 \/ nrhs > 4
                             THEN "Wrong number of inputs."
                             ELSE "Wrong number of outputs.")
        /\ NoFrame

C1_Witness == pc = "error" /\ nrhs = 4 /\ nlhs = 3 /\ ClockGiven

\* C2: no partial results.  A status -1 of iauTtut1 or a non-zero status
\* of iauTdbtt, in either iteration, is the last library call of the call:
\* the call is aborted right there with no output; and outputs exist only
\* once both iterations have completed without a fatal status.
FatalStatus(e) ==
    \/ e.fn = "iauTtut1" /\ e.ret = -1
    \/ e.fn = "iauTdbtt" /\ e.ret # 0

C2_NoPartialResults ==
    /\ \A i \in 1..Len(log) : FatalStatus(log[i]) => AbortedAt(i)
    /\ plhs # <<>> =>
          /\ pc = "done"
          /\ curIter = 2
          /\ \A it \in {0, 1} :
                \E i \in PositionsIn("iauTdbtt", it) : log[i].ret = 0
          /\ \A w \in Positions("doubleMat2Matlab") :
                \A i \in Positions("iauTdbtt") \cup Positions("iauTtut1") :
                   i < w

C2_Witness ==
    /\ pc = "error"
    /\ \E i \in PositionsIn("iauTdbtt", 1) : log[i].ret # 0
    /\ \E i \in PositionsIn("iauTdbtt", 0) : log[i].ret = 0

\* C3 as claimed: after a dubious-year status of iauTtut1 or iauTaiutc a
\* warning is raised and the same iteration goes on to iauDtdb and
\* iauTdbtt; with no fatal status the call returns TT.
DubiousAt(i) ==
    log[i].fn \in {"iauTtut1", "iauTaiutc"} /\ log[i].ret = 1
AnyFatalStatus ==
    \E i \in 1..Len(log) :
        \/ FatalStatus(log[i])
        \/ log[i].fn = "iauTttai" /\ log[i].ret # 0
        \/ log[i].fn = "iauTaiutc" /\ log[i].ret = -1
WarnedAt(i) == i < Len(log) /\ log[i + 1].fn = "mexWarnMsgTxt"

C3_AsClaimed ==
    Ended =>
        /\ \A i \in 1..Len(log) : DubiousAt(i) =>
              /\ WarnedAt(i)
              /\ FollowedBy(i, "iauDtdb")
              /\ FollowedBy(i, "iauTdbtt")
        /\ ((\E i \in 1..Len(log) : DubiousAt(i)) /\ ~AnyFatalStatus) =>
              pc = "done" /\ Len(plhs) >= 1

\* C3 amended: a dubious-year status raises a warning and does not stop
\* the call.  After a dubious iauTtut1 the same iteration calls iauDtdb
\* and iauTdbtt.  After a dubious iauTaiutc the same iteration queries
\* getEOP and calls iauTtut1, and goes on to iauDtdb and iauTdbtt unless
\* that iauTtut1 returns -1.  With no fatal status the call returns TT.
C3_DubiousGoesOn ==
    Ended =>
        /\ \A i \in 1..Len(log) : DubiousAt(i) =>
              /\ WarnedAt(i)
              /\ log[i].fn = "iauTtut1" =>
                    FollowedBy(i, "iauDtdb") /\ FollowedBy(i, "iauTdbtt")
              /\ log[i].fn = "iauTaiutc" =>
                    /\ FollowedBy(i, "getEOP")
                    /\ FollowedBy(i, "iauTtut1")
                    /\ (\A j \in PositionsIn("iauTtut1", log[i].iter) :
                           log[j].ret # -1) =>
                          FollowedBy(i, "iauDtdb") /\ FollowedBy(i, "iauTdbtt")
        /\ ((\E i \in 1..Len(log) : DubiousAt(i)) /\ ~AnyFatalStatus) =>
              pc = "done" /\ Len(plhs) >= 1

C3_Witness ==
    /\ pc = "done"
    /\ \E i \in PositionsIn("iauTaiutc", 0) : log[i].ret = 1
    /\ \E i \in PositionsIn("iauTtut1", 1) : log[i].ret = 1
    /\ Cardinality(Positions("mexWarnMsgTxt")) = 2

\* C4: with a non-empty deltaTTUT1 as third argument the lookup is never
\* made, every iauTtut1 receives the supplied offset, both iterations
\* call it, and the TT returned equals the TT of every earlier call of the
\* session that was given the same argument values.
C4_SuppliedOffset ==
    (Running /\ ValidCounts /\ SuppliedDeltaT) =>
        /\ \A i \in 1..Len(log) : log[i].fn \notin LookupRoutines
        /\ \A i \in Positions("iauTtut1") :
              log[i].args[3] = entry[3].data[1]
        /\ pc = "done" =>
              /\ \A it \in {0, 1} : PositionsIn("iauTtut1", it) # {}
              /\ \A k \in 1..Len(hist) :
                    (hist[k].outcome = "done" /\ hist[k].entry = entry) =>
                        SameTT(hist[k].plhs, plhs)

C4_Witness ==
    /\ pc = "done"
    /\ SuppliedDeltaT
    /\ Len(plhs) = 2
    /\ \E k \in 1..Len(hist) :
          /\ hist[k].outcome = "done"
          /\ hist[k].entry = entry
          /\ Len(hist[k].plhs) = 2

\* C5: a call changes nothing the caller or a later call can observe: the
\* argument arrays hold after the call what they held before it, and
\* successive calls on the same arrays return the same TT.
C5_Stateless ==
    /\ Ended => prhs = entry
    /\ \A k \in 1..Len(hist) : hist[k].after = hist[k].entry
    /\ (pc = "done" /\ SuppliedDeltaT) =>
          \A k \in 1..Len(hist) :
             hist[k].outcome = "done" => SameTT(hist[k].plhs, plhs)

\* C6: a call that passed argument validation terminates; a call that
\* returns has called iauTtut1, iauDtdb, iauTdbtt exactly twice each, in
\* that order within iteration 0 and then iteration 1, and has written its
\* outputs after the second iauTdbtt; a call that ends without an error
\* message returns.
LoopRoutines == {"iauTtut1", "iauDtdb", "iauTdbtt"}
LoopCalls == SelectSeq(log, LAMBDA e : e.fn \in LoopRoutines)
TwoIterations ==
    /\ Len(LoopCalls) = 6
    /\ \A k \in 1..6 :
          /\ LoopCalls[k].fn = <<"iauTtut1", "iauDtdb", "iauTdbtt">>[((k - 1) % 3) + 1]
          /\ LoopCalls[k].iter = (k - 1) \div 3
OutputsLast ==
    \A w \in Positions("doubleMat2Matlab") :
        /\ Cardinality({i \in Positions("iauTdbtt") : i < w}) = 2
        /\ \A i \in 1..Len(log) : log[i].fn \in LoopRoutines => i < w

C6_TwoIterations ==
    /\ [](pc = "done" => TwoIterations /\ curIter = 2 /\ Len(plhs) >= 1)
    /\ [](OutputsLast /\ Len(LoopCalls) <= 6)
    /\ []((Ended /\ Positions("mexErrMsgTxt") = {}) => pc = "done")
    /\ (pc = "readInputs") ~> Ended

C6_Witness ==
    /\ pc = "done"
    /\ nlhs = 2
    /\ Cardinality(Positions("doubleMat2Matlab")) = 2
    /\ Cardinality(Positions("getEOP")) = 2

\* C7: iauDtdb and iauTdbtt always receive the caller's TDB1, TDB2, never
\* the TT estimate; iauTdbtt receives the correction of its own iteration;
\* the TT returned is iauTdbtt(TDB1, TDB2, d2), d2 being the correction
\* iauDtdb(TDB1, TDB2, UT1Frac of the second iauTtut1, elon, u, v).
C7_FromOriginalTDB ==
    (Running /\ Len(entry) >= 2) =>
        LET tdb1 == entry[1].data[1]
            tdb2 == entry[2].data[1]
        IN  /\ \A i \in Positions("iauDtdb") :
                  log[i].args[1] = tdb1 /\ log[i].args[2] = tdb2
            /\ \A i \in Positions("iauTdbtt") :
                  /\ log[i].args[1] = tdb1 /\ log[i].args[2] = tdb2
                  /\ \E j \in PositionsIn("iauDtdb", log[i].iter) :
                        j < i /\ log[i].args[3] = log[j].out[1]
            /\ pc = "done" =>
                  LET t2 == CHOOSE t \in PositionsIn("iauTtut1", 1) : TRUE
                      j2 == CHOOSE j \in PositionsIn("iauDtdb", 1) : TRUE
                      d2 == DtdbOut(tdb1, tdb2,
                               UT1FracOf(log[t2].out[1], log[t2].out[2]),
                               elon, u, v)
                  IN  /\ log[j2].out[1] = d2
                      /\ plhs[1] = TdbttOut(1, tdb1, tdb2, d2)
                      /\ Len(plhs) = 2 => plhs[2] = TdbttOut(2, tdb1, tdb2, d2)

C7_Witness ==
    /\ pc = "done"
    /\ Len(plhs) = 2
    /\ u # ZeroLen
    /\ \E i \in PositionsIn("iauDtdb", 0), j \in PositionsIn("iauDtdb", 1) :
          log[i].out # log[j].out

\* C8: without a supplied offset (argument omitted or empty) every
\* iteration looks the offset up once, before its iauTtut1, for the
\* current TT estimate: the caller's TDB in iteration 0, the TT of the
\* first iauTdbtt in iteration 1.  getEOP is asked for the UTC of that TT,
\* iauTtut1 gets that TT and the offset getEOP answered, and a call that
\* returns has made exactly two lookups.
C8_LookupPerIteration ==
    (Running /\ ValidCounts /\ ~SuppliedDeltaT) =>
        /\ \A it \in {0, 1} :
              /\ Cardinality(PositionsIn("iauTttai", it)) <= 1
              /\ Cardinality(PositionsIn("getEOP", it)) <= 1
        /\ \A t \in Positions("iauTttai") :
              log[t].args = CurrentTT(log[t].iter)
        /\ \A g \in Positions("getEOP") :
              LET tt  == CurrentTT(log[g].iter)
                  tai == <<TttaiOut(1, tt[1], tt[2]), TttaiOut(2, tt[1], tt[2])>>
              IN  log[g].args = <<TaiutcOut(1, tai[1], tai[2]),
                                  TaiutcOut(2, tai[1], tai[2])>>
        /\ \A i \in Positions("iauTtut1") :
              /\ <<log[i].args[1], log[i].args[2]>> = CurrentTT(log[i].iter)
              /\ \E t \in PositionsIn("iauTttai", log[i].iter),
                    g \in PositionsIn("getEOP", log[i].iter) :
                    t < g /\ g < i /\ log[i].args[3] = log[g].out[1]
        /\ pc = "done" =>
              /\ Cardinality(Positions("iauTttai")) = 2
              /\ Cardinality(Positions("getEOP")) = 2

C8_Witness ==
    /\ pc = "done"
    /\ Len(entry) = 3
    /\ ~SuppliedDeltaT
    /\ \E g \in PositionsIn("getEOP", 0), h \in PositionsIn("getEOP", 1) :
          log[g].out # log[h].out /\ log[g].args # log[h].args

\* C9: in getDeltaTFromEOP a non-zero status of iauTttai or a status -1
\* of iauTaiutc aborts the call there: getEOP is not queried in that
\* iteration, iauTtut1 is not called with an offset from it, the offset
\* variable keeps its previous value and the call has no output.
HelperFatal(e) ==
    \/ e.fn = "iauTttai" /\ e.ret # 0
    \/ e.fn = "iauTaiutc" /\ e.ret = -1

C9_HelperFatal ==
    \A i \in 1..Len(log) : HelperFatal(log[i]) =>
        /\ AbortedAt(i)
        /\ PositionsIn("getEOP", log[i].iter) = {}
        /\ PositionsIn("iauTtut1", log[i].iter) = {}
        /\ deltaTTUT1 =
              (IF log[i].iter = 0 THEN Num(0)
               ELSE LET g == CHOOSE g \in PositionsIn("getEOP", 0) : TRUE
                    IN  log[g].out[1])

C9_Witness ==
    /\ pc = "error"
    /\ \E i \in PositionsIn("iauTaiutc", 1) : log[i].ret = -1
    /\ PositionsIn("getEOP", 0) # {}

\* C10 as claimed: UT1Frac lies in [0,1), equals the fractional part of
\* Jul1UT1+Jul2UT1, and is the same for every split of the same date.
TrueFrac(Jul1, Jul2) == (Jul1 + Jul2) % Scale
CircDist(a, b) == Min((a - b) % Scale, (b - a) % Scale)
\* The rounding the three additions of line 145 can add up to.
RoundErr == 2 * Ulp(Scale - 1)
ExactSplit(Jul1, Jul2) ==
    /\ Representable(Jul1 - Floor(Jul1))
    /\ Representable(Jul2 - Floor(Jul2))
    /\ Representable((Jul1 - Floor(Jul1)) + (Jul2 - Floor(Jul2)))

C10_AsClaimed ==
    pc = "iauDtdb" =>
        /\ 0 <= UT1Frac /\ UT1Frac < Scale
        /\ UT1Frac = TrueFrac(Jul1UT1, Jul2UT1)
        /\ \A a, b \in Doubles :
              a + b = Jul1UT1 + Jul2UT1 => UT1FracOf(a, b) = UT1Frac

\* C10 amended: UT1Frac lies in [0,1) and is the fractional part of
\* Jul1UT1+Jul2UT1 up to floating-point rounding: modulo one day it is
\* within RoundErr of it, it equals it when neither fractional part nor
\* their sum is rounded, and two splits of one date give fractions within
\* 2*RoundErr of each other modulo one day.
C10_FractionUpToRounding ==
    pc = "iauDtdb" =>
        /\ 0 <= UT1Frac /\ UT1Frac < Scale
        /\ CircDist(UT1Frac, TrueFrac(Jul1UT1, Jul2UT1)) <= RoundErr
        /\ ExactSplit(Jul1UT1, Jul2UT1) =>
              UT1Frac = TrueFrac(Jul1UT1, Jul2UT1)
        /\ \A a, b \in Doubles :
              a + b = Jul1UT1 + Jul2UT1 =>
                 CircDist(UT1FracOf(a, b), UT1Frac) <= 2 * RoundErr

C10_Witness ==
    /\ pc = "iauDtdb"
    /\ Jul1UT1 > Scale /\ Jul2UT1 < 0
    /\ UT1Frac # TrueFrac(Jul1UT1, Jul2UT1)
    /\ UT1Frac = 0

====
